---------------------------- MODULE Spec2Model ----------------------------
(***************************************************************************)
(* Model of src/main.rs of ipa-shiken-fetcher: the driver loop of main     *)
(* (fetch a page, extract the first "kako" fragment, post it to the        *)
(* webhook) and the pure function extract_kakomon.                         *)
(*                                                                         *)
(* A parsed HTML document is a sequence of element nodes in document       *)
(* order (pre-order); each node carries its depth, so the descendants of   *)
(* node i are the nodes that follow it while their depth stays larger.     *)
(* A Rust String is a sequence of tokens; an Option is a sequence of       *)
(* length 0 (None) or 1 (Some).                                            *)
(***************************************************************************)
EXTENDS Integers, Sequences, FiniteSets, TLC

VARIABLES fetch_urls, url_idx, pc, text, kakomon, net

vars == <<fetch_urls, url_idx, pc, text, kakomon, net>>

None == <<>>
Some(x) == <<x>>

(***************************************************************************)
(* Bounds of the model.                                                    *)
(***************************************************************************)
MaxUrls == 2
MaxNodes == 3
MaxListNodes == 5
MaxFragmentNodes == 4

(***************************************************************************)
(* Strings.                                                                *)
(***************************************************************************)
RECURSIVE Flatten(_)
Flatten(ss) == IF ss = <<>> THEN <<>> ELSE Head(ss) \o Flatten(Tail(ss))

\* The lines of a string: the token runs ended by a "\n" token.
RECURSIVE LinesFrom(_, _)
LinesFrom(s, cur) ==
    IF s = <<>> THEN (IF cur = <<>> THEN <<>> ELSE <<cur>>)
    ELSE IF Head(s) = "\n" THEN <<cur>> \o LinesFrom(Tail(s), <<>>)
    ELSE LinesFrom(Tail(s), Append(cur, Head(s)))

Lines(s) == LinesFrom(s, <<>>)

IsPrefix(p, s) == Len(p) <= Len(s) /\ SubSeq(s, 1, Len(p)) = p

(***************************************************************************)
(* url::Url.  An href/src string is a URI reference                        *)
(*   [scheme, host : Option, abs : BOOLEAN, path : Seq, query, frag]       *)
(* (abs: the path starts with "/"); a parsed Url is                        *)
(*   [scheme, host, path, query, frag]  with an absolute path.             *)
(* The model covers the http/https references the page families hold: a    *)
(* reference with a scheme also has a host.                                *)
(***************************************************************************)
Ref(scheme, host, abs, path, query, frag) ==
    [scheme |-> scheme, host |-> host, abs |-> abs, path |-> path,
     query |-> query, frag |-> frag]

Url(scheme, host, path, query, frag) ==
    [scheme |-> scheme, host |-> host, path |-> path, query |-> query, frag |-> frag]

NoUrl == Url("", "", <<>>, None, None)
Ok(u) == [ok |-> TRUE, url |-> u]
Err == [ok |-> FALSE, url |-> NoUrl]

\* A host the parser rejects (an unclosed IPv6 literal such as "[").
ValidHost(h) == h # "["

\* Dot segments removed, as the parser does while it reads a path.
RECURSIVE RemoveDots(_, _)
RemoveDots(segs, out) ==
    IF segs = <<>> THEN (IF out = <<>> THEN <<"">> ELSE out)
    ELSE IF Head(segs) = "." THEN
        RemoveDots(Tail(segs), IF Tail(segs) = <<>> THEN Append(out, "") ELSE out)
    ELSE IF Head(segs) = ".." THEN
        LET popped == IF out = <<>> THEN <<>> ELSE SubSeq(out, 1, Len(out) - 1)
        IN  RemoveDots(Tail(segs), IF Tail(segs) = <<>> THEN Append(popped, "") ELSE popped)
    ELSE RemoveDots(Tail(segs), Append(out, Head(segs)))

\* Url::parse(href): only a reference with a scheme parses on its own.
UrlParse(href) ==
    IF href.scheme = None \/ href.host = None THEN Err
    ELSE IF ~ValidHost(href.host[1]) THEN Err
    ELSE Ok(Url(href.scheme[1], href.host[1], RemoveDots(href.path, <<>>),
                href.query, href.frag))

\* The slip of resolving a relative reference without the host of base.
UrlJoin_NoHost(base, href) ==
    IF href.scheme # None THEN UrlParse(href)
    ELSE IF href.host # None /\ ~ValidHost(href.host[1]) THEN Err
    ELSE Ok(Url(base.scheme, IF href.host # None THEN href.host[1] ELSE "",
                RemoveDots(href.path, <<>>), href.query, href.frag))

\* base.join(href): relative-reference resolution against base.
UrlJoin(base, href) ==
    IF href.scheme # None THEN UrlParse(href)
    ELSE IF href.host # None THEN
        IF ~ValidHost(href.host[1]) THEN Err
        ELSE Ok(Url(base.scheme, href.host[1], RemoveDots(href.path, <<>>),
                    href.query, href.frag))
    ELSE IF href.abs THEN
        Ok(Url(base.scheme, base.host, RemoveDots(href.path, <<>>), href.query, href.frag))
    ELSE IF href.path # <<>> THEN
        Ok(Url(base.scheme, base.host,
               RemoveDots(SubSeq(base.path, 1, Len(base.path) - 1) \o href.path, <<>>),
               href.query, href.frag))
    ELSE
        Ok(Url(base.scheme, base.host, base.path,
               IF href.query # None THEN href.query ELSE base.query, href.frag))

\* Url::to_string(): the serialization.
UrlToString(u) ==
    <<u.scheme, "://", u.host>>
        \o Flatten([k \in 1..Len(u.path) |-> <<"/", u.path[k]>>])
        \o (IF u.query = None THEN <<>> ELSE <<"?", u.query[1]>>)
        \o (IF u.frag = None THEN <<>> ELSE <<"#", u.frag[1]>>)

(***************************************************************************)
(* scraper::Html.  A node is [tag, class, attr, text, depth]: class is the *)
(* class attribute, attr the href (of an a) or src (of an img), text the   *)
(* text node the element starts with.                                      *)
(***************************************************************************)
Node(tag, class, attr, txt, depth) ==
    [tag |-> tag, class |-> class, attr |-> attr, text |-> txt, depth |-> depth]

Indices(doc) == [j \in 1..Len(doc) |-> j]

\* The parent of node j (0: the node hangs under body).
Parent(doc, j) ==
    IF doc[j].depth = 0 THEN 0
    ELSE CHOOSE p \in 1..(j - 1) :
            /\ doc[p].depth = doc[j].depth - 1
            /\ \A q \in (p + 1)..(j - 1) : doc[q].depth >= doc[j].depth

IsDescendant(doc, scope, j) ==
    j > scope /\ \A k \in (scope + 1)..j : doc[k].depth > doc[scope].depth

\* document.select(tag): every element with the tag, in document order.
SelectDocument(doc, tag) ==
    LET Match(j) == doc[j].tag = tag IN SelectSeq(Indices(doc), Match)

\* element.select(tag): the proper descendants of scope with the tag.
Select(doc, scope, tag) ==
    LET Match(j) == IsDescendant(doc, scope, j) /\ doc[j].tag = tag
    IN  SelectSeq(Indices(doc), Match)

\* element.select("ul > li"): the descendant li elements whose parent is a ul.
SelectUlLi(doc, scope) ==
    LET Match(j) == /\ IsDescendant(doc, scope, j)
                    /\ doc[j].tag = "li"
                    /\ Parent(doc, j) # 0
                    /\ doc[Parent(doc, j)].tag = "ul"
    IN  SelectSeq(Indices(doc), Match)

\* element.text().collect().join(""): the text nodes of the subtree, joined.
ElemText(doc, i) ==
    LET InTree(j) == j = i \/ IsDescendant(doc, i, j)
        tree == SelectSeq(Indices(doc), InTree)
    IN  Flatten([k \in 1..Len(tree) |-> doc[tree[k]].text])

(***************************************************************************)
(* extract_kakomon.  An accumulator is [panic, title, text]; panic is set  *)
(* by an unwrap() of None or of Err, which ends the whole process.         *)
(***************************************************************************)
Acc(title, txt) == [panic |-> FALSE, title |-> title, text |-> txt]
Panicked == [panic |-> TRUE, title |-> <<>>, text |-> <<>>]

\* attr(..).unwrap(), then Url::parse(href) or url.join(href).unwrap():
\* the string one link or image adds, or a panic.
ResolveAttr(url, attr) ==
    IF attr = None THEN [panic |-> TRUE, str |-> <<>>]
    ELSE LET href == attr[1]
             parsed == UrlParse(href)
             joined == UrlJoin(url, href)
         IN  IF parsed.ok THEN [panic |-> FALSE, str |-> UrlToString(parsed.url)]
             ELSE IF joined.ok THEN [panic |-> FALSE, str |-> UrlToString(joined.url)]
             ELSE [panic |-> TRUE, str |-> <<>>]

\* for elem2 in element.select("a"): from the k-th link on.
RECURSIVE LinkScan(_, _, _, _, _)
LinkScan(doc, elems, k, url, acc) ==
    IF acc.panic \/ k > Len(elems) THEN acc
    ELSE LET r == ResolveAttr(url, doc[elems[k]].attr)
         IN  IF r.panic THEN Panicked
             ELSE LinkScan(doc, elems, k + 1, url,
                           [acc EXCEPT !.text = @ \o r.str \o <<"\n">>])

\* The slip of numbering the items from elem3_idx, that is from 0.
RECURSIVE OptionLines_FromZero(_, _, _)
OptionLines_FromZero(doc, items, k) ==
    IF k > Len(items) THEN <<>>
    ELSE LET elem3_idx == k - 1
         IN  <<ToString(elem3_idx), ". ">> \o ElemText(doc, items[k]) \o <<"\n">>
                 \o OptionLines_FromZero(doc, items, k + 1)

\* for (elem3_idx, elem3) in elem2.select("ul > li").enumerate(): from the
\* k-th item on; elem3_idx counts from 0.
RECURSIVE OptionLines(_, _, _)
OptionLines(doc, items, k) ==
    IF k > Len(items) THEN <<>>
    ELSE LET elem3_idx == k - 1
         IN  <<ToString(elem3_idx + 1), ". ">> \o ElemText(doc, items[k]) \o <<"\n">>
                 \o OptionLines(doc, items, k + 1)

\* The slip of adding the title to the text as well.
DivArm_TitleInText(doc, elem2, acc) ==
    LET class == doc[elem2].class
    IN  IF class = Some("mondai") THEN
            [acc EXCEPT !.text = @ \o ElemText(doc, elem2) \o <<"\n">>]
        ELSE IF class = Some("anslink") THEN
            [acc EXCEPT !.title = @ \o ElemText(doc, elem2),
                        !.text = @ \o ElemText(doc, elem2)]
        ELSE IF class = Some("ansbg") THEN
            [acc EXCEPT !.text = @ \o OptionLines(doc, SelectUlLi(doc, elem2), 1)]
        ELSE acc

\* match elem2.value().attr("class"): what one descendant div adds.
DivArm(doc, elem2, acc) ==
    LET class == doc[elem2].class
    IN  IF class = Some("mondai") THEN
            [acc EXCEPT !.text = @ \o ElemText(doc, elem2) \o <<"\n">>]
        ELSE IF class = Some("anslink") THEN
            [acc EXCEPT !.title = @ \o ElemText(doc, elem2)]
        ELSE IF class = Some("ansbg") THEN
            [acc EXCEPT !.text = @ \o OptionLines(doc, SelectUlLi(doc, elem2), 1)]
        ELSE acc

\* for elem2 in element.select("div"): from the k-th div on.
RECURSIVE DivScan(_, _, _, _)
DivScan(doc, elems, k, acc) ==
    IF acc.panic \/ k > Len(elems) THEN acc
    ELSE DivScan(doc, elems, k + 1, DivArm(doc, elems[k], acc))

\* for elem2 in element.select("img"): from the k-th image on.
RECURSIVE ImageScan(_, _, _, _, _)
ImageScan(doc, elems, k, url, acc) ==
    IF acc.panic \/ k > Len(elems) THEN acc
    ELSE LET r == ResolveAttr(url, doc[elems[k]].attr)
         IN  IF r.panic THEN Panicked
             ELSE ImageScan(doc, elems, k + 1, url,
                            [acc EXCEPT !.text = @ \o r.str \o <<"\n">>])

\* The slip of matching the marker as one of the classes of the attribute.
IsKako_AmongClasses(node) == node.class \in {Some("kako"), Some("kako x")}

\* element.value().attr("class") == Some("kako")
IsKako(node) == node.class = Some("kako")

\* The slip of scanning the images before the containers.
ScanFragment_ImagesFirst(doc, element, url) ==
    LET links == LinkScan(doc, Select(doc, element, "a"), 1, url, Acc(<<>>, <<>>))
        imgs == ImageScan(doc, Select(doc, element, "img"), 1, url, links)
    IN  DivScan(doc, Select(doc, element, "div"), 1, imgs)

\* The body of the if: the three scans over the fragment, in this order.
ScanFragment(doc, element, url) ==
    LET links == LinkScan(doc, Select(doc, element, "a"), 1, url, Acc(<<>>, <<>>))
        divs == DivScan(doc, Select(doc, element, "div"), 1, links)
    IN  ImageScan(doc, Select(doc, element, "img"), 1, url, divs)

Kakomon(kind, title, txt) == [kind |-> kind, title |-> title, text |-> txt]

\* for element in document.select("div"): from the k-th div on.
RECURSIVE FirstKako(_, _, _, _)
FirstKako(doc, divs, k, url) ==
    IF k > Len(divs) THEN Kakomon("None", <<>>, <<>>)
    ELSE IF IsKako(doc[divs[k]]) THEN
        LET acc == ScanFragment(doc, divs[k], url)
        IN  IF acc.panic THEN Kakomon("panic", <<>>, <<>>)
            ELSE Kakomon("Some", acc.title, acc.text)
    ELSE FirstKako(doc, divs, k + 1, url)

\* The slip of answering a page without a fragment with an empty record.
extract_kakomon_EmptyRecord(html_text, url) ==
    LET r == FirstKako(html_text, SelectDocument(html_text, "div"), 1, url)
    IN  IF r.kind = "None" THEN Kakomon("Some", <<>>, <<>>) ELSE r

extract_kakomon(html_text, url) ==
    FirstKako(html_text, SelectDocument(html_text, "div"), 1, url)

(***************************************************************************)
(* main.  The network is a log of the requests made, each with the         *)
(* response it got: [op, url, ok, html, body].                             *)
(***************************************************************************)
WebhookUrl == Url("https", "hooks.slack.com", <<"services", "T0">>, None, None)

Get(url, ok, html) ==
    [op |-> "GET", url |-> UrlToString(url), ok |-> ok, html |-> html, body |-> <<>>]

Post(webhook, body, ok) ==
    [op |-> "POST", url |-> UrlToString(webhook), ok |-> ok, html |-> <<>>, body |-> body]

\* The slip of putting the text in the header and the title in the section.
Body_Swapped(kako) ==
    <<[type |-> "header",
       text |-> [type |-> "plain_text", text |-> kako.text, emoji |-> TRUE]],
      [type |-> "divider"],
      [type |-> "section", text |-> [type |-> "mrkdwn", text |-> kako.title]]>>

\* object!{ "blocks": [header, divider, section] }
Body(kako) ==
    <<[type |-> "header",
       text |-> [type |-> "plain_text", text |-> kako.title, emoji |-> TRUE]],
      [type |-> "divider"],
      [type |-> "section", text |-> [type |-> "mrkdwn", text |-> kako.text]]>>

InitWith(configs) ==
    /\ fetch_urls \in configs
    /\ url_idx = 1
    /\ pc = IF fetch_urls = <<>> THEN "ok" ELSE "fetch"
    /\ text = <<>>
    /\ kakomon = None
    /\ net = <<>>

\* The end of one iteration of the for loop: the next url, or Ok(()).
NextUrl ==
    /\ url_idx' = url_idx + 1
    /\ pc' = IF url_idx + 1 > Len(fetch_urls) THEN "ok" ELSE "fetch"
    /\ text' = <<>>
    /\ kakomon' = None

\* reqwest::get(url).await?.text().await? answers with a page.
FetchOk(pages) ==
    /\ pc = "fetch"
    /\ \E html \in pages :
          /\ text' = html
          /\ net' = Append(net, Get(fetch_urls[url_idx], TRUE, html))
    /\ pc' = "extract"
    /\ UNCHANGED <<fetch_urls, url_idx, kakomon>>

\* reqwest::get(url).await? or .text().await? is an Err: main returns it.
FetchErr ==
    /\ pc = "fetch"
    /\ net' = Append(net, Get(fetch_urls[url_idx], FALSE, <<>>))
    /\ pc' = "err"
    /\ UNCHANGED <<fetch_urls, url_idx, text, kakomon>>

\* match extract_kakomon(&text, url.clone()): Some, None (continue) or a panic.
Extract ==
    /\ pc = "extract"
    /\ LET r == extract_kakomon(text, fetch_urls[url_idx])
       IN  IF r.kind = "panic" THEN
               /\ pc' = "panic"
               /\ UNCHANGED <<url_idx, text, kakomon>>
           ELSE IF r.kind = "None" THEN NextUrl
           ELSE /\ kakomon' = Some(r)
                /\ pc' = "send"
                /\ UNCHANGED <<url_idx, text>>
    /\ UNCHANGED <<fetch_urls, net>>

\* send_to_slack_webhook(&config.webhook_url, body.to_string()).await? is Ok.
SendOk ==
    /\ pc = "send"
    /\ net' = Append(net, Post(WebhookUrl, Body(kakomon[1]), TRUE))
    /\ NextUrl
    /\ UNCHANGED fetch_urls

\* client.post(..).send().await? is an Err: main returns it.
SendErr ==
    /\ pc = "send"
    /\ net' = Append(net, Post(WebhookUrl, Body(kakomon[1]), FALSE))
    /\ pc' = "err"
    /\ UNCHANGED <<fetch_urls, url_idx, text, kakomon>>

(***************************************************************************)
(* Inputs: the configured urls and the pages the sites answer with.        *)
(***************************************************************************)
HomeUrl == Url("https", "www.ap-siken.com", <<"">>, None, None)
PageUrl == Url("https", "www.fe-siken.com", <<"kakomon", "index.html">>, Some("p=1"), None)
PlainUrl == Url("http", "sc-siken.test", <<"a", "b", "">>, None, Some("top"))

BaseUrls == {HomeUrl, PageUrl}

UrlLists(urls, max) == UNION {[1..n -> urls] : n \in 0..max}

\* "/kakomon/21_haru/q31.html", "img/31.png" and "//[".
RootRef == Ref(None, None, TRUE, <<"kakomon", "21_haru", "q31.html">>, None, None)
PathRef == Ref(None, None, FALSE, <<"img", "31.png">>, None, None)
BadRef == Ref(None, Some("["), FALSE, <<>>, None, None)

Kind(tag, class, attr) == [tag |-> tag, class |-> class, attr |-> attr]

\* The text node of the j-th element of a page; an img has none.
Word(tag, j) == IF tag = "img" THEN <<>> ELSE <<"w" \o ToString(j)>>

\* What the HTML parser never builds: a child of an img, an a inside an a,
\* an li that is the child of an li.
CanAppend(doc, node) ==
    LET j == Len(doc) + 1
        grown == Append(doc, node)
        p == Parent(grown, j)
    IN  /\ p # 0 => doc[p].tag # "img"
        /\ node.tag = "a" => \A i \in 1..Len(doc) :
                                 IsDescendant(grown, i, j) => doc[i].tag # "a"
        /\ (node.tag = "li" /\ p # 0) => doc[p].tag # "li"

\* The pages of docs (of n elements each) grown by one more element of the
\* kinds, at any depth from lo up to one below the last element.
Grow(docs, kinds, lo, n) ==
    LET fits == {t \in docs \X kinds \X (lo..n) :
                    /\ t[3] <= (IF t[1] = <<>> THEN 0 ELSE t[1][Len(t[1])].depth + 1)
                    /\ CanAppend(t[1], Node(t[2].tag, t[2].class, t[2].attr, <<>>, t[3]))}
    IN  {Append(t[1], Node(t[2].tag, t[2].class, t[2].attr,
                           Word(t[2].tag, n + 1), t[3])) : t \in fits}

\* The pages of docs grown by at most max elements.
RECURSIVE GrowTo(_, _, _, _, _)
GrowTo(docs, kinds, lo, n, max) ==
    IF n >= max THEN docs
    ELSE docs \cup GrowTo(Grow(docs, kinds, lo, n), kinds, lo, n + 1, max)

DivKinds ==
    {Kind("div", c, None) :
        c \in {None, Some("kako"), Some("kako x"), Some("kakomon"), Some("mondai"),
               Some("anslink"), Some("ansbg")}}

LinkKinds == {Kind("a", None, h) : h \in {None, Some(RootRef), Some(BadRef)}}
ImageKinds == {Kind("img", None, s) : s \in {None, Some(PathRef)}}
ListKinds == {Kind("ul", None, None), Kind("li", None, None)}

\* Every page of at most MaxNodes elements.
GenericPages ==
    GrowTo({<<>>}, DivKinds \cup LinkKinds \cup ImageKinds \cup ListKinds, 0, 0, MaxNodes)

KakoRoot == <<Node("div", Some("kako"), None, Word("div", 1), 0)>>

\* A kako div holding at most MaxFragmentNodes links, images, lists and
\* statement, title and option containers.
FragmentKinds ==
    {Kind("a", None, Some(RootRef)), Kind("img", None, Some(PathRef))}
        \cup {Kind("div", c, None) : c \in {Some("mondai"), Some("anslink"), Some("ansbg")}}
        \cup ListKinds

FragmentPages == GrowTo({KakoRoot}, FragmentKinds, 1, 1, 1 + MaxFragmentNodes)

\* A kako div holding at most MaxListNodes option containers, lists, items.
ListPages ==
    GrowTo({KakoRoot}, {Kind("div", Some("ansbg"), None)} \cup ListKinds, 1, 1,
           1 + MaxListNodes)

\* A kako div holding one link or image, over every form of reference.
Refs ==
    {Ref(a[1], a[2], p[1], p[2], q, f) :
        a \in {<<None, None>>, <<None, Some("cdn.test")>>, <<None, Some("[")>>,
               <<Some("http"), Some("cdn.test")>>, <<Some("https"), Some("[")>>},
        p \in {<<FALSE, <<>> >>, <<TRUE, <<"">> >>, <<TRUE, <<"img", "31.png">> >>,
               <<FALSE, <<"31.png">> >>, <<FALSE, <<"..", "31.png">> >>},
        q \in {None, Some("n=31")},
        f \in {None, Some("q")}}

RefPages ==
    {KakoRoot \o <<Node(t, None, Some(r), Word(t, 2), 1)>> :
        t \in {"a", "img"},
        r \in {r \in Refs : r.host # None => (r.abs \/ r.path = <<>>)}}

\* The pages of the driver's runs: the home page of the test, and pages
\* without a kako div, with a multi-class one, with two, and with a link or
\* an image the extraction panics on.
HomePage ==
    <<Node("div", Some("main"), None, <<"w1">>, 0),
      Node("div", Some("kako"), None, <<"w2">>, 1),
      Node("div", Some("mondai"), None, <<"w3">>, 2),
      Node("div", Some("ansbg"), None, <<"w4">>, 2),
      Node("ul", None, None, <<"w5">>, 3),
      Node("li", None, None, <<"w6">>, 4),
      Node("li", None, None, <<"w7">>, 4),
      Node("div", Some("anslink"), None, <<"w8">>, 2),
      Node("a", None, Some(RootRef), <<"w9">>, 3)>>

SamplePages ==
    {HomePage,
     <<>>,
     <<Node("div", None, None, <<"w1">>, 0), Node("div", Some("mondai"), None, <<"w2">>, 1)>>,
     <<Node("div", Some("kako x"), None, <<"w1">>, 0),
       Node("div", Some("mondai"), None, <<"w2">>, 1)>>,
     <<Node("div", Some("kako"), None, <<"w1">>, 0),
       Node("div", Some("anslink"), None, <<"w2">>, 1),
       Node("div", Some("kako"), None, <<"w3">>, 0),
       Node("div", Some("mondai"), None, <<"w4">>, 1)>>,
     <<Node("div", Some("kako"), None, <<"w1">>, 0), Node("a", None, None, <<"w2">>, 1)>>,
     <<Node("div", Some("kako"), None, <<"w1">>, 0),
       Node("img", None, Some(BadRef), <<>>, 1)>>}

(***************************************************************************)
(* Specifications.  Spec runs the driver over every list of at most        *)
(* MaxUrls urls; the others run it over one url and a family of pages.     *)
(***************************************************************************)
Init == InitWith(UrlLists(BaseUrls, MaxUrls))
Next == FetchOk(SamplePages) \/ FetchErr \/ Extract \/ SendOk \/ SendErr
Spec == Init /\ [][Next]_vars

InitOne == InitWith({<<HomeUrl>>})

NextExtract == FetchOk(GenericPages) \/ FetchErr \/ Extract \/ SendOk \/ SendErr
SpecExtract == InitOne /\ [][NextExtract]_vars

NextFragment == FetchOk(FragmentPages) \/ FetchErr \/ Extract \/ SendOk \/ SendErr
SpecFragment == InitOne /\ [][NextFragment]_vars

NextOptions == FetchOk(ListPages) \/ FetchErr \/ Extract \/ SendOk \/ SendErr
SpecOptions == InitOne /\ [][NextOptions]_vars

InitResolve == InitWith({<<u>> : u \in BaseUrls \cup {PlainUrl}})
NextResolve == FetchOk(RefPages) \/ FetchErr \/ Extract \/ SendOk \/ SendErr
SpecResolve == InitResolve /\ [][NextResolve]_vars

(***************************************************************************)
(* What the claims speak of, stated on the page and on the log.            *)
(***************************************************************************)
IsGet(e) == e.op = "GET"
Gets(log) == SelectSeq(log, IsGet)

\* The position in fetch_urls of the url the e-th request belongs to.
UrlOf(e) == Len(Gets(SubSeq(net, 1, e)))

\* The divs whose class attribute is exactly the marker, and the first one
\* in document order (0: none).
ExactKakos(doc) == {j \in 1..Len(doc) : doc[j].tag = "div" /\ doc[j].class = <<"kako">>}

FirstExactKako(doc) ==
    IF ExactKakos(doc) = {} THEN 0
    ELSE CHOOSE j \in ExactKakos(doc) : \A k \in ExactKakos(doc) : j <= k

\* The descendants of f with the tag (and, for a div, the class), in
\* document order.
Within(doc, f, tag) ==
    LET Match(j) == IsDescendant(doc, f, j) /\ doc[j].tag = tag
    IN  SelectSeq(Indices(doc), Match)

DivsWithin(doc, f, class) ==
    LET Match(j) == IsDescendant(doc, f, j) /\ doc[j].tag = "div" /\ doc[j].class = <<class>>
    IN  SelectSeq(Indices(doc), Match)

\* The page of the run of a one-url specification, once extraction is over.
Extracted == Len(net) >= 1 /\ net[1].op = "GET" /\ net[1].ok /\ pc # "extract"
Page == net[1].html

\* Whether the reference resolves: it names no host, or a host that parses.
Resolvable(ref) == ref.host = None \/ ref.host[1] # "["

(***************************************************************************)
(* The driver loop (specification Spec).                                   *)
(***************************************************************************)

\* C1: a failed fetch or post for one url does not abort the rest: when a
\* run has ended on such a failure, every configured url has been fetched.
C1_FailSoft == pc = "err" => Len(Gets(net)) = Len(fetch_urls)

\* C2: a page without a div of class exactly "kako" extracts to None, the
\* driver posts nothing for it and goes on to the next url, or ends with
\* Ok(()) when it was the last one.
C2_NoFragmentSkips ==
    \A e \in 1..Len(net) :
        (net[e].op = "GET" /\ net[e].ok /\ FirstExactKako(net[e].html) = 0) =>
            /\ extract_kakomon(net[e].html, fetch_urls[UrlOf(e)]).kind = "None"
            /\ e < Len(net) => net[e + 1].op = "GET" /\ UrlOf(e + 1) = UrlOf(e) + 1
            /\ e = Len(net) =>
                  \/ pc = "extract" /\ url_idx = UrlOf(e)
                  \/ pc = "fetch" /\ url_idx = UrlOf(e) + 1 /\ UrlOf(e) < Len(fetch_urls)
                  \/ pc = "ok" /\ UrlOf(e) = Len(fetch_urls)

\* A run over two urls whose pages both hold divs but no fragment: it has
\* fetched both, posted nothing and ended with Ok(()).
C2_Witness ==
    /\ pc = "ok"
    /\ Len(net) = 2
    /\ \A e \in {1, 2} :
          /\ net[e].op = "GET" /\ net[e].ok
          /\ net[e].html # <<>>
          /\ FirstExactKako(net[e].html) = 0
    /\ \E j \in 1..Len(net[1].html) : net[1].html[j].class = <<"kako x">>

\* C10: the urls are fetched in the order of fetch_urls, one cycle at a
\* time: every post directly follows the successful fetch of its url, so
\* there is at most one per url and it comes before the next fetch, and
\* its payload carries the title and text extracted from that url's page.
C10_Sequential ==
    /\ Len(Gets(net)) <= Len(fetch_urls)
    /\ \A k \in 1..Len(Gets(net)) : Gets(net)[k].url = UrlToString(fetch_urls[k])
    /\ \A e \in 1..Len(net) :
          net[e].op = "POST" =>
              /\ e > 1
              /\ net[e - 1].op = "GET"
              /\ net[e - 1].ok
              /\ net[e].url = UrlToString(WebhookUrl)
              /\ LET r == extract_kakomon(net[e - 1].html, fetch_urls[UrlOf(e)])
                 IN  /\ r.kind = "Some"
                     /\ Len(net[e].body) = 3
                     /\ net[e].body[1].text.text = r.title
                     /\ net[e].body[3].text.text = r.text

\* A run that fetched two different urls and posted a different record
\* for each, the first with a title and option lines.
C10_Witness ==
    /\ Len(net) = 4
    /\ net[1].op = "GET" /\ net[2].op = "POST"
    /\ net[3].op = "GET" /\ net[4].op = "POST"
    /\ net[1].url # net[3].url
    /\ net[2].body # net[4].body
    /\ net[2].body[1].text.text # <<>>
    /\ net[2].body[3].text.text # <<>>

(***************************************************************************)
(* extract_kakomon over every page of at most MaxNodes elements            *)
(* (specification SpecExtract).                                            *)
(***************************************************************************)

\* The subtree of f alone, as a document.
OnlyFragment(doc, f) ==
    LET InTree(j) == j = f \/ IsDescendant(doc, f, j)
        tree == SelectSeq(Indices(doc), InTree)
    IN  [k \in 1..Len(tree) |-> [doc[tree[k]] EXCEPT !.depth = @ - doc[f].depth]]

\* C4: the record comes from the first div whose class is exactly "kako":
\* without one (multi-class divs do not count) the result is None, and
\* otherwise it is what that div's subtree alone extracts to, whatever
\* comes before or after it.
C4_FirstExactKako ==
    Extracted =>
        LET f == FirstExactKako(Page)
            r == extract_kakomon(OnlyFragment(Page, f), fetch_urls[1])
        IN  IF f = 0 THEN pc = "ok" /\ Len(net) = 1
            ELSE IF r.kind = "panic" THEN pc = "panic"
            ELSE /\ r.kind = "Some"
                 /\ \/ pc = "send" /\ kakomon = Some(r)
                    \/ pc \in {"ok", "err"} /\ Len(net) = 2 /\ net[2].body = Body(r)

\* A page whose first exact match is empty and whose second holds a
\* statement: the record extracted has no text.
C4_Witness ==
    /\ Extracted
    /\ pc = "send"
    /\ Cardinality(ExactKakos(Page)) = 2
    /\ \E k \in ExactKakos(Page) :
          /\ k # FirstExactKako(Page)
          /\ ~IsDescendant(Page, FirstExactKako(Page), k)
          /\ DivsWithin(Page, k, "mondai") # <<>>
    /\ kakomon[1].text = <<>>

\* C5: a link without href or an image without src in the fragment does
\* not abort the extraction: when every attribute that is present resolves,
\* a record is returned.
C5_MissingAttrSkipped ==
    (/\ Extracted
     /\ FirstExactKako(Page) # 0
     /\ \A j \in 1..Len(Page) : Page[j].attr # None => Resolvable(Page[j].attr[1])
     /\ \E j \in 1..Len(Page) :
           /\ IsDescendant(Page, FirstExactKako(Page), j)
           /\ Page[j].tag \in {"a", "img"}
           /\ Page[j].attr = None)
        => pc # "panic"

\* C6: resolving never aborts the extraction: when every link and image of
\* the fragment carries its attribute, a record is returned, also when a
\* value neither parses nor joins.
C6_ResolveNeverAborts ==
    (/\ Extracted
     /\ FirstExactKako(Page) # 0
     /\ \A j \in 1..Len(Page) : Page[j].tag \in {"a", "img"} => Page[j].attr # None)
        => pc # "panic"

(***************************************************************************)
(* The scans over a fragment of at most MaxFragmentNodes elements          *)
(* (specification SpecFragment).                                           *)
(***************************************************************************)

\* The lines a statement or option container of the fragment can produce:
\* the text of a mondai div, or a numbered item of an ansbg div.
ContainerLines(doc, f) ==
    {ElemText(doc, DivsWithin(doc, f, "mondai")[k]) :
        k \in 1..Len(DivsWithin(doc, f, "mondai"))}
    \cup
    {<<ToString(n), ". ">> \o ElemText(doc, li) :
        n \in 1..Len(doc),
        li \in {j \in 1..Len(doc) :
                  /\ doc[j].tag = "li"
                  /\ \E c \in 1..Len(DivsWithin(doc, f, "ansbg")) :
                        IsDescendant(doc, DivsWithin(doc, f, "ansbg")[c], j)}}

\* The line a link or image produces: its reference resolved against url.
UrlLine(url, node) == ResolveAttr(url, node.attr).str

\* C3: the lines of text come in the order of the scans: one line per link
\* first, in document order, then only container lines, then one line per
\* image, wherever the elements sit in the fragment.
C3_ScanOrder ==
    (Extracted /\ pc = "send") =>
        LET f == FirstExactKako(Page)
            links == Within(Page, f, "a")
            imgs == Within(Page, f, "img")
            lines == Lines(kakomon[1].text)
            last == Len(lines) - Len(imgs)
        IN  /\ Len(lines) >= Len(links) + Len(imgs)
            /\ \A k \in 1..Len(links) : lines[k] = UrlLine(fetch_urls[1], Page[links[k]])
            /\ \A k \in (Len(links) + 1)..last : lines[k] \in ContainerLines(Page, f)
            /\ \A k \in 1..Len(imgs) : lines[last + k] = UrlLine(fetch_urls[1], Page[imgs[k]])

\* A fragment that holds, in document order, an image, then a statement,
\* then a link: the text has the link's line, the statement, the image's.
C3_Witness ==
    /\ Extracted
    /\ pc = "send"
    /\ \E i, m, a \in 1..Len(Page) :
          /\ i < m /\ m < a
          /\ Page[i].tag = "img"
          /\ Page[m].class = <<"mondai">>
          /\ Page[a].tag = "a"
    /\ Len(Lines(kakomon[1].text)) = 3

\* The page with the class of every anslink div removed.
WithoutTitle(doc) ==
    [j \in 1..Len(doc) |->
        IF doc[j].class = <<"anslink">> THEN [doc[j] EXCEPT !.class = None] ELSE doc[j]]

\* C8: title is the inner texts of the anslink divs of the fragment, in
\* document order, joined with nothing between; they add nothing to text,
\* and nothing else adds to title: without the anslink class on them the
\* text is the same and the title is empty.
C8_Title ==
    (Extracted /\ pc = "send") =>
        LET f == FirstExactKako(Page)
            titles == DivsWithin(Page, f, "anslink")
            plain == extract_kakomon(WithoutTitle(Page), fetch_urls[1])
        IN  /\ kakomon[1].title = Flatten([k \in 1..Len(titles) |-> ElemText(Page, titles[k])])
            /\ kakomon[1].text = plain.text
            /\ plain.title = <<>>
            /\ titles = <<>> => kakomon[1].title = <<>>

\* A fragment with two anslink divs, a statement and a link.
C8_Witness ==
    /\ Extracted
    /\ pc = "send"
    /\ Len(DivsWithin(Page, FirstExactKako(Page), "anslink")) = 2
    /\ DivsWithin(Page, FirstExactKako(Page), "mondai") # <<>>
    /\ Within(Page, FirstExactKako(Page), "a") # <<>>
    /\ Len(kakomon[1].title) >= 2

(***************************************************************************)
(* The option lists of a fragment of at most MaxListNodes elements         *)
(* (specification SpecOptions).                                            *)
(***************************************************************************)

\* The items of the container c: its descendant li elements under a ul.
Items(doc, c) ==
    LET Match(j) == /\ IsDescendant(doc, c, j)
                    /\ doc[j].tag = "li"
                    /\ \E u \in 1..(j - 1) :
                          /\ doc[u].tag = "ul"
                          /\ doc[u].depth = doc[j].depth - 1
                          /\ \A q \in (u + 1)..j : doc[q].depth > doc[u].depth
    IN  SelectSeq(Indices(doc), Match)

\* The lines of the container c: its items, numbered from 1.
NumberedItems(doc, c) ==
    [k \in 1..Len(Items(doc, c)) |-> <<ToString(k), ". ">> \o ElemText(doc, Items(doc, c)[k])]

\* C7: each ansbg container gives one line per item, numbered 1, 2, 3, ...
\* in document order, and the numbering starts again at 1 for the next
\* container, nested or not.
C7_Numbering ==
    (Extracted /\ pc = "send") =>
        LET boxes == DivsWithin(Page, FirstExactKako(Page), "ansbg")
        IN  Lines(kakomon[1].text) =
                Flatten([c \in 1..Len(boxes) |-> NumberedItems(Page, boxes[c])])

\* Two containers, one with two items or more and both with items.
C7_Witness ==
    /\ Extracted
    /\ pc = "send"
    /\ \E c, d \in 1..Len(Page) :
          /\ c < d
          /\ Page[c].class = <<"ansbg">>
          /\ Page[d].class = <<"ansbg">>
          /\ Len(Items(Page, c)) >= 2
          /\ Len(Items(Page, d)) >= 1

(***************************************************************************)
(* Resolution of one href or src of every form against every base          *)
(* (specification SpecResolve).                                            *)
(***************************************************************************)
Href == Page[2].attr[1]
Resolved == Lines(kakomon[1].text)[1]

\* C9 as claimed: every href that does not parse on its own, the scheme-
\* relative form included, resolves to the scheme and authority of base.
C9_BaseAuthority ==
    (Extracted /\ pc = "send" /\ Href.scheme = None) =>
        IsPrefix(<<fetch_urls[1].scheme, "://", fetch_urls[1].host, "/">>, Resolved)

\* C9 as amended: a relative href resolves to the scheme of base, and to
\* the authority of base unless it names its own (the scheme-relative
\* form), which is then the authority of the result.
C9_BaseAuthorityUnlessOwn ==
    (Extracted /\ pc = "send" /\ Href.scheme = None) =>
        IsPrefix(<<fetch_urls[1].scheme, "://",
                   IF Href.host = None THEN fetch_urls[1].host ELSE Href.host[1], "/">>,
                 Resolved)

\* A path-relative href with a ".." segment resolved against a base whose
\* path has a directory.
C9_Witness ==
    /\ Extracted
    /\ pc = "send"
    /\ Href.scheme = None
    /\ Href.host = None
    /\ ~Href.abs
    /\ Len(Href.path) = 2
    /\ Href.path[1] = ".."
    /\ Len(fetch_urls[1].path) = 3
    /\ Resolved[3] = fetch_urls[1].host

=============================================================================
